---- MODULE Spec2Model ----
(***************************************************************************)
(* The TRON vanity-address search pipeline, in its three programs:         *)
(*   "hybrid" src/gpu/tron_hybrid.py  one accelerator producer process,    *)
(*            N cpu_worker processes, the Controller/Aggregator in main()  *)
(*   "mp"     src/gpu/tron_gpu.py     N worker processes drawing their own *)
(*            keys, the Controller/Aggregator in main()                    *)
(*   "cuda"   src/gpu/tron_cuda.py    one thread: TronGPUGenerator.search  *)
(* A behaviour runs one of them (variant, chosen in Init).                 *)
(*                                                                         *)
(* A private key is one integer of 0..CurveOrder (the 32 bytes read as a   *)
(* scalar); an address is a tuple of one-character strings.                *)
(***************************************************************************)
EXTENDS Integers, Sequences, FiniteSets, TLC

VARIABLES
    variant,        \* "hybrid" | "mp" | "cuda"
    cuda_ok,        \* cuda.is_available() in the parent process
    stop_flag,      \* Value(c_bool) shared by every process of the hybrid
    key_queue,      \* Queue(maxsize): the batches in flight
    result_queue,   \* Queue(): the Hits in flight
    stats_queue,    \* Queue(): the deltas in flight
    gpc,            \* gpu_key_generator: "init" | "loop" | "put" | "done"
    gkeys,          \* gpu_key_generator: the batch generated and not enqueued
    gen_calls,      \* calls of the key source made so far
    rng_states,     \* the state of the accelerator's pseudo-random generator
    wpc,            \* each worker: "loop" | "get" | "batch" | "done"
    wkeys,          \* each worker: the candidates of its batch still to do
    count,          \* each worker: its local attempt counter
    pstatus,        \* each process: "unstarted" | "running" | "exited" |
                    \*               "failed" | "killed"
    joined,         \* the processes join(timeout) was called on
    cpc,            \* the Controller's position in main() / search()
    cidx,           \* the Controller's index in its shutdown loop
    ckeys,          \* search(): the candidates of its batch still to do
    total_count,    \* Stats.total_attempts
    found_count,    \* Stats.hits_found
    last_count,     \* Stats.last_report_count
    file,           \* found_addresses.txt, line by line
    interrupts,     \* operator interrupts delivered so far
    ioerrors,       \* I/O errors raised so far
    reports,        \* final summaries printed
    derived,        \* successful address derivations performed so far
    matched         \* the Matcher on its own: its arguments and its results

vars == <<variant, cuda_ok, stop_flag, key_queue, result_queue, stats_queue,
          gpc, gkeys, gen_calls, rng_states, wpc, wkeys, count, pstatus, joined,
          cpc, cidx, ckeys, total_count, found_count, last_count, file,
          interrupts, ioerrors, reports, derived, matched>>

(***************************************************************************)
(* Bounds of the model and configuration of the run.                       *)
(***************************************************************************)
\* worker processes (num_workers / NUM_WORKERS)
NumWorkers == 2
\* candidates per batch (GPU_BATCH_SIZE / BATCH_SIZE)
BatchSize == 2
\* key_queue's maxsize
QueueDepth == 1
\* calls of the key source in one run
MaxCalls == 3
\* the order of the curve: a scalar is valid iff 0 < k < CurveOrder
CurveOrder == 3
\* successful derivations between two deltas (10000 hybrid, 5000 mp)
Granularity == 2
\* TARGET_COUNT / target_count
TARGET_COUNT == 2
\* operator interrupts in one run
MaxInterrupts == 2
\* I/O errors in one run
MaxIOErrors == 1
\* the longest address the Matcher is called on, on its own
MaxAddressLen == 4
\* the longest prefix and the longest suffix it is called with
MaxPatternLen == 2

Workers == 1..NumWorkers
\* process 0 is gpu_process, process w is cpu_processes[w-1] / processes[w-1]
GPU == 0
Procs == 0..NumWorkers
Candidates == 0..CurveOrder

\* generate_random_keys_kernel: the generator is seeded once and every call
\* takes the next BatchSize values of its stream. The stream of the model is
\* the counter modulo the number of candidates, which has full period.
KeyAt(state, i) == (state + i - 1) % (CurveOrder + 1)
generate_batch(state) == [i \in 1..BatchSize |-> KeyAt(state, i)]
NextState(state) == (state + BatchSize) % (CurveOrder + 1)

(***************************************************************************)
(* Pure functions.                                                         *)
(***************************************************************************)
Min(a, b) == IF a < b THEN a ELSE b
Max(a, b) == IF a > b THEN a ELSE b

\* Python's s[lo:hi] on a tuple, 0-based and clamped to the tuple
Slice(s, lo, hi) ==
    LET l == Min(Max(lo, 0), Len(s))
        h == Min(Max(hi, 0), Len(s))
    IN  IF h <= l THEN <<>> ELSE SubSeq(s, l + 1, h)

\* Python's s[-n:]: the last n elements, all of s when it is shorter, and all
\* of s for n = 0 (s[-0:] is s[0:])
LastN(s, n) == IF n = 0 THEN s ELSE Slice(s, Len(s) - n, Len(s))

PREFIX == <<"M", "G", "f">>
SUFFIX == <<"f", "q", "q">>

\* SigningKey.from_string accepts exactly the scalars 1..order-1
ValidKey(k) == 0 < k /\ k < CurveOrder

\* the first characters of BASE58_ALPHABET
BASE58_ALPHABET == <<"1", "2", "3", "4", "5", "6", "7", "8", "9", "A">>

\* private_key_to_address on a valid key: the Base58Check text of the hash of
\* the public key. It starts with T, and distinct keys give distinct text.
\* Odd keys stand for the keys whose address carries the configured pattern.
private_key_to_address(k) ==
    <<"T", "M", "G", "f", BASE58_ALPHABET[k + 1]>>
        \o (IF k % 2 = 1 THEN <<"f", "q", "q">> ELSE <<"f", "q", "A">>)

HexDigits ==
    <<"0", "1", "2", "3", "4", "5", "6", "7",
      "8", "9", "a", "b", "c", "d", "e", "f">>

\* bytes.hex() of a one-byte key: two lower-case hexadecimal digits
Hex(k) == <<HexDigits[(k \div 16) + 1], HexDigits[(k % 16) + 1]>>

\* a suffix test that forgets that an empty suffix matches
SuffixDiffersUnguarded(address, suffix) ==
    LastN(address, Len(suffix)) # suffix

\* "suffix and address[-len(suffix):] != suffix": a non-empty suffix that is
\* not the end of the address
SuffixDiffers(address, suffix) ==
    suffix # <<>> /\ LastN(address, Len(suffix)) # suffix

\* check_address of tron_cuda.py and tron_gpu.py: two early returns
check_address(address, prefix, suffix) ==
    IF prefix # <<>> /\ Slice(address, 1, 1 + Len(prefix)) # prefix
    THEN FALSE
    ELSE IF SuffixDiffers(address, suffix) THEN FALSE ELSE TRUE

\* the test inlined in cpu_worker: the lengths are taken once (lines
\* 110-111), then match is cleared by either test (lines 128-132)
cpu_worker_match(address, prefix, suffix) ==
    LET prefix_len == IF prefix # <<>> THEN Len(prefix) ELSE 0
        suffix_len == IF suffix # <<>> THEN Len(suffix) ELSE 0
        match1 == IF prefix_len > 0
                     /\ Slice(address, 1, 1 + prefix_len) # prefix
                  THEN FALSE ELSE TRUE
    IN  IF match1 /\ suffix_len > 0 /\ LastN(address, suffix_len) # suffix
        THEN FALSE ELSE match1

\* the test inlined in worker of tron_gpu.py: nested ifs (lines 78-79, 91-97)
worker_match(address, prefix, suffix) ==
    LET prefix_len == IF prefix # <<>> THEN Len(prefix) ELSE 0
        suffix_len == IF suffix # <<>> THEN Len(suffix) ELSE 0
        match1 == IF prefix_len > 0
                  THEN (IF Slice(address, 1, 1 + prefix_len) # prefix
                        THEN FALSE ELSE TRUE)
                  ELSE TRUE
    IN  IF match1 /\ suffix_len > 0
        THEN (IF LastN(address, suffix_len) # suffix THEN FALSE ELSE match1)
        ELSE match1

\* the match decision of the program that runs
match_of(address, prefix, suffix) ==
    CASE variant = "hybrid" -> cpu_worker_match(address, prefix, suffix)
      [] variant = "mp" -> worker_match(address, prefix, suffix)
      [] OTHER -> check_address(address, prefix, suffix)

\* the dict a worker puts on result_queue
Hit(k, w) ==
    [address |-> private_key_to_address(k), private_key |-> Hex(k),
     worker_id |-> w]

\* the four lines of one record of found_addresses.txt
RecordLines(result) ==
    << <<"Address", result.address>>,
       <<"Private Key", result.private_key>>,
       <<"Time", <<>> >>,
       <<"Separator", <<>> >> >>

\* the Matcher was not called on its own
NoCall == [address |-> <<>>, prefix |-> <<>>, suffix |-> <<>>, out |-> <<>>]

(***************************************************************************)
(* The state after the module is loaded, before main() runs.               *)
(***************************************************************************)
Init ==
    /\ variant \in {"hybrid", "mp", "cuda"}
    /\ cuda_ok \in (IF variant = "mp" THEN {TRUE} ELSE BOOLEAN)
    /\ stop_flag = FALSE
    /\ key_queue = <<>>
    /\ result_queue = <<>>
    /\ stats_queue = <<>>
    /\ gpc = "init"
    /\ gkeys = <<>>
    /\ gen_calls = 0
    /\ rng_states \in (IF variant = "mp" THEN {0} ELSE Candidates)
    /\ wpc = [w \in Workers |-> "loop"]
    /\ wkeys = [w \in Workers |-> <<>>]
    /\ count = [w \in Workers |-> 0]
    /\ pstatus = [p \in Procs |-> "unstarted"]
    /\ joined = {}
    /\ cpc = "start"
    /\ cidx = 0
    /\ ckeys = <<>>
    /\ total_count = 0
    /\ found_count = 0
    /\ last_count = 0
    /\ file = <<>>
    /\ interrupts = 0
    /\ ioerrors = 0
    /\ reports = 0
    /\ derived = 0
    /\ matched = NoCall

\* the Controller's state of section 4.5, read off its position
Phase ==
    CASE cpc = "start" -> "Starting"
      [] cpc \in {"loop", "stats", "results", "report", "batch"} -> "Running"
      [] cpc \in {"stop", "term", "join", "final"} -> "Draining"
      [] cpc = "stopped" -> "Stopped"
      [] cpc = "aborted" -> "Aborted"
      [] OTHER -> "Failed"

(***************************************************************************)
(* gpu_key_generator (hybrid): the accelerator producer process.           *)
(***************************************************************************)
gvars == <<gpc, gkeys, gen_calls, rng_states>>
wvars == <<wpc, wkeys, count>>
cvars == <<cpc, cidx, ckeys, total_count, found_count, last_count, file,
           reports>>
envvars == <<variant, cuda_ok, interrupts, ioerrors, matched>>

\* lines 73-88: the child found a device and set up its generator
GpuInit ==
    /\ variant = "hybrid" /\ pstatus[GPU] = "running" /\ gpc = "init"
    /\ gpc' = "loop"
    /\ UNCHANGED <<envvars, stop_flag, key_queue, result_queue, stats_queue,
                   gkeys, gen_calls, rng_states, wvars, pstatus, joined, cvars,
                   derived>>

\* lines 73-75 and 104-105: no device in the child, or an exception of the
\* set-up or of a kernel launch; the function returns and the process ends
GpuFail ==
    /\ variant = "hybrid" /\ pstatus[GPU] = "running"
    /\ gpc \in {"init", "loop"}
    /\ gpc' = "done"
    /\ pstatus' = [pstatus EXCEPT ![GPU] = "failed"]
    /\ UNCHANGED <<envvars, stop_flag, key_queue, result_queue, stats_queue,
                   gkeys, gen_calls, rng_states, wvars, joined, cvars, derived>>

\* lines 90-96: the flag is unset, one more batch is generated
GpuGenerate ==
    /\ variant = "hybrid" /\ pstatus[GPU] = "running" /\ gpc = "loop"
    /\ ~stop_flag
    /\ gen_calls < MaxCalls
    /\ gkeys' = generate_batch(rng_states)
    /\ rng_states' = NextState(rng_states)
    /\ gen_calls' = gen_calls + 1
    /\ gpc' = "put"
    /\ UNCHANGED <<envvars, stop_flag, key_queue, result_queue, stats_queue,
                   wvars, pstatus, joined, cvars, derived>>

\* line 90: the flag is set, the loop and the process end
GpuExit ==
    /\ variant = "hybrid" /\ pstatus[GPU] = "running" /\ gpc = "loop"
    /\ stop_flag
    /\ gpc' = "done"
    /\ pstatus' = [pstatus EXCEPT ![GPU] = "exited"]
    /\ UNCHANGED <<envvars, stop_flag, key_queue, result_queue, stats_queue,
                   gkeys, gen_calls, rng_states, wvars, joined, cvars, derived>>

\* a put that lets one batch too many in
QueueHasRoomOffByOne(q) == Len(q) <= QueueDepth

\* whether key_queue.put may add a batch
QueueHasRoom(q) == Len(q) < QueueDepth

\* line 100: key_queue.put(keys, timeout=1) finds room
GpuPut ==
    /\ variant = "hybrid" /\ pstatus[GPU] = "running" /\ gpc = "put"
    /\ QueueHasRoom(key_queue)
    /\ key_queue' = Append(key_queue, gkeys)
    /\ gkeys' = <<>>
    /\ gpc' = "loop"
    /\ UNCHANGED <<envvars, stop_flag, result_queue, stats_queue, gen_calls,
                   rng_states, wvars, pstatus, joined, cvars, derived>>

\* the producer's batch after a put that timed out: lines 101-102 pass, and
\* the next turn of the loop overwrites keys
KeysAfterTimeout(keys) == keys

\* lines 100-102: the queue stayed full for the whole timeout; Full is
\* swallowed and the loop goes back to its flag check
GpuPutTimeout ==
    /\ variant = "hybrid" /\ pstatus[GPU] = "running" /\ gpc = "put"
    /\ ~QueueHasRoom(key_queue)
    /\ gkeys' = KeysAfterTimeout(gkeys)
    /\ gpc' = "loop"
    /\ UNCHANGED <<envvars, stop_flag, key_queue, result_queue, stats_queue,
                   gen_calls, rng_states, wvars, pstatus, joined, cvars,
                   derived>>

(***************************************************************************)
(* cpu_worker (hybrid) and worker (mp).                                    *)
(***************************************************************************)
\* a counter that is incremented before the derivation
CountAfterEvery(c, k) == c + 1

\* the local counter after one candidate: count += 1 comes after the
\* derivation, so a candidate whose derivation raises leaves it alone
CountAfter(c, k) == IF ValidKey(k) THEN c + 1 ELSE c

\* the inlined match of lines 127-132 (hybrid) and 90-97 (mp)
IsMatch(k) ==
    ValidKey(k) /\ match_of(private_key_to_address(k), PREFIX, SUFFIX)

\* a report that comes one derivation late
DeltaDueOffByOne(c, k) ==
    ValidKey(k) /\ CountAfter(c, k) % (Granularity + 1) = 0

\* whether the candidate makes the worker report: count % 10000 == 0
DeltaDue(c, k) == ValidKey(k) /\ CountAfter(c, k) % Granularity = 0

\* a report that forgets count = 0
CountAfterTryNoReset(c, k) == CountAfter(c, k)

\* the local counter at the end of the try: reset when the delta was put
\* (hybrid lines 142-144, mp lines 107-109)
CountAfterTry(c, k) == IF DeltaDue(c, k) THEN 0 ELSE CountAfter(c, k)

\* the body of the per-candidate try of worker w on candidate k
TryKey(w, k) ==
    /\ result_queue' =
           IF IsMatch(k) THEN Append(result_queue, Hit(k, w)) ELSE result_queue
    /\ stats_queue' =
           IF DeltaDue(count[w], k)
           THEN Append(stats_queue, CountAfter(count[w], k))
           ELSE stats_queue
    /\ count' = [count EXCEPT ![w] = CountAfterTry(@, k)]
    /\ derived' = IF ValidKey(k) THEN derived + 1 ELSE derived

\* a flush that overwrites what the channel holds
FinalFlushOverwrites(q, c) == IF c > 0 THEN <<c>> ELSE q

\* the stats queue after the flush of lines 152-154
FinalFlush(q, c) == IF c > 0 THEN Append(q, c) ELSE q

\* line 113, flag unset: the worker goes on to key_queue.get
WLoop(w) ==
    /\ variant = "hybrid" /\ pstatus[w] = "running" /\ wpc[w] = "loop"
    /\ ~stop_flag
    /\ wpc' = [wpc EXCEPT ![w] = "get"]
    /\ UNCHANGED <<envvars, stop_flag, key_queue, result_queue, stats_queue,
                   gvars, wkeys, count, pstatus, joined, cvars, derived>>

\* lines 113 and 152-154, flag set: the loop ends, the counter is flushed and
\* the process ends
WExit(w) ==
    /\ variant = "hybrid" /\ pstatus[w] = "running" /\ wpc[w] = "loop"
    /\ stop_flag
    /\ stats_queue' = FinalFlush(stats_queue, count[w])
    /\ wpc' = [wpc EXCEPT ![w] = "done"]
    /\ pstatus' = [pstatus EXCEPT ![w] = "exited"]
    /\ UNCHANGED <<envvars, stop_flag, key_queue, result_queue, gvars, wkeys,
                   count, joined, cvars, derived>>

\* line 116: key_queue.get(timeout=1) returns a batch
WGet(w) ==
    /\ variant = "hybrid" /\ pstatus[w] = "running" /\ wpc[w] = "get"
    /\ key_queue # <<>>
    /\ wkeys' = [wkeys EXCEPT ![w] = Head(key_queue)]
    /\ key_queue' = Tail(key_queue)
    /\ wpc' = [wpc EXCEPT ![w] = "batch"]
    /\ UNCHANGED <<envvars, stop_flag, result_queue, stats_queue, gvars,
                   count, pstatus, joined, cvars, derived>>

\* a worker that gives up on the first Empty
AfterGetTimeoutGivesUp == "done"

\* where a worker whose get timed out goes: lines 149-150, continue
AfterGetTimeout == "loop"

\* lines 116 and 149-150: the queue stayed empty for the whole timeout; Empty
\* is swallowed and the worker is back at its flag check
WGetTimeout(w) ==
    /\ variant = "hybrid" /\ pstatus[w] = "running" /\ wpc[w] = "get"
    /\ key_queue = <<>>
    /\ wpc' = [wpc EXCEPT ![w] = AfterGetTimeout]
    /\ UNCHANGED <<envvars, stop_flag, key_queue, result_queue, stats_queue,
                   gvars, wkeys, count, pstatus, joined, cvars, derived>>

\* lines 118-147 (hybrid), 84-113 (mp): one turn of the loop over the batch
WKey(w) ==
    /\ variant \in {"hybrid", "mp"}
    /\ pstatus[w] = "running" /\ wpc[w] = "batch"
    /\ IF stop_flag
       THEN \* lines 119-120: break
            /\ wkeys' = [wkeys EXCEPT ![w] = <<>>]
            /\ wpc' = [wpc EXCEPT ![w] = "loop"]
            /\ UNCHANGED <<result_queue, stats_queue, count, derived>>
       ELSE /\ TryKey(w, Head(wkeys[w]))
            /\ wkeys' = [wkeys EXCEPT ![w] = Tail(@)]
            /\ wpc' = [wpc EXCEPT
                   ![w] = IF Tail(wkeys[w]) = <<>> THEN "loop" ELSE "batch"]
    /\ UNCHANGED <<envvars, stop_flag, key_queue, gvars, pstatus, joined,
                   cvars>>

\* tron_gpu.py line 84: the worker draws its next key from os.urandom
MPGen(w) ==
    /\ variant = "mp" /\ pstatus[w] = "running" /\ wpc[w] = "loop"
    /\ gen_calls < MaxCalls
    /\ \E k \in Candidates : wkeys' = [wkeys EXCEPT ![w] = <<k>>]
    /\ gen_calls' = gen_calls + 1
    /\ wpc' = [wpc EXCEPT ![w] = "batch"]
    /\ UNCHANGED <<envvars, stop_flag, key_queue, result_queue, stats_queue,
                   gpc, gkeys, rng_states, count, pstatus, joined, cvars,
                   derived>>

(***************************************************************************)
(* main() of tron_hybrid.py and tron_gpu.py: Controller and Aggregator.    *)
(***************************************************************************)
\* where the Controller's shutdown path starts: the finally block sets the
\* flag first in the hybrid, and goes straight to terminate() in mp
ShutdownPc == IF variant = "hybrid" THEN "stop" ELSE "term"
ShutdownIdx == IF variant = "hybrid" THEN GPU ELSE 1

\* a start-up that goes on without looking at the device
AfterDeviceCheckSkipped(available) == "loop"

\* where main() goes after cuda.is_available(): sys.exit(1) without a device
\* (hybrid lines 162-165; cuda lines 91-92 and 225-228)
AfterDeviceCheck(available) == IF available THEN "loop" ELSE "exit1"

\* hybrid lines 161-206, mp lines 127-147: the device check, then every
\* process is started
CStart ==
    /\ variant \in {"hybrid", "mp"} /\ cpc = "start"
    /\ IF variant = "hybrid" /\ AfterDeviceCheck(cuda_ok) = "exit1"
       THEN /\ cpc' = "exit1"
            /\ UNCHANGED pstatus
       ELSE /\ cpc' = "loop"
            /\ pstatus' = [p \in Procs |->
                   IF p = GPU /\ variant = "mp" THEN "unstarted" ELSE "running"]
    /\ UNCHANGED <<envvars, stop_flag, key_queue, result_queue, stats_queue,
                   gvars, wvars, joined, cidx, ckeys, total_count, found_count,
                   last_count, file, reports, derived>>

\* whether the main loop takes one more turn: while found_count < TARGET_COUNT
LoopGuard(found) == found < TARGET_COUNT

\* hybrid line 216, mp line 150
CLoop ==
    /\ variant \in {"hybrid", "mp"} /\ cpc = "loop"
    /\ IF LoopGuard(found_count)
       THEN cpc' = "stats" /\ UNCHANGED cidx
       ELSE cpc' = ShutdownPc /\ cidx' = ShutdownIdx
    /\ UNCHANGED <<envvars, stop_flag, key_queue, result_queue, stats_queue,
                   gvars, wvars, pstatus, joined, ckeys, total_count,
                   found_count, last_count, file, reports, derived>>

\* a total that counts the deltas instead of adding them
TotalAfterCountsMessages(total, delta) == total + 1

\* total_count += stats_queue.get_nowait() (hybrid line 220, mp line 153)
TotalAfter(total, delta) == total + delta

\* hybrid lines 218-222, mp lines 152-153: one turn of the stats loop
CStats ==
    /\ variant \in {"hybrid", "mp"} /\ cpc = "stats"
    /\ IF stats_queue # <<>>
       THEN /\ total_count' = TotalAfter(total_count, Head(stats_queue))
            /\ stats_queue' = Tail(stats_queue)
            /\ UNCHANGED cpc
       ELSE /\ cpc' = "results"
            /\ UNCHANGED <<total_count, stats_queue>>
    /\ UNCHANGED <<envvars, stop_flag, key_queue, result_queue, gvars, wvars,
                   pstatus, joined, cidx, ckeys, found_count, last_count, file,
                   reports, derived>>

\* hybrid line 225, mp line 156: the result queue is empty
CResultEmpty ==
    /\ variant \in {"hybrid", "mp"} /\ cpc = "results"
    /\ result_queue = <<>>
    /\ cpc' = "report"
    /\ UNCHANGED <<envvars, stop_flag, key_queue, result_queue, stats_queue,
                   gvars, wvars, pstatus, joined, cidx, ckeys, total_count,
                   found_count, last_count, file, reports, derived>>

\* an append that runs while another one has not written its last line
FileAfterInterleaved(f, result, n) ==
    IF f = <<>>
    THEN SubSeq(RecordLines(result), 1, n)
    ELSE SubSeq(f, 1, Len(f) - 1) \o SubSeq(RecordLines(result), 1, n)
            \o <<f[Len(f)]>>

\* the file after the first n lines of a record were written and the with
\* block closed it
FileAfter(f, result, n) == f \o SubSeq(RecordLines(result), 1, n)

\* where the Controller goes after a record was appended: the hybrid breaks
\* out of the result loop on the target (lines 243-244), mp drains on
AfterSave(found) ==
    IF variant = "hybrid" /\ found >= TARGET_COUNT THEN "report" ELSE "results"

\* hybrid lines 227-244, mp lines 157-171: a Hit is taken, counted, printed
\* and appended to the file
CResultSaved ==
    /\ variant \in {"hybrid", "mp"} /\ cpc = "results"
    /\ result_queue # <<>>
    /\ result_queue' = Tail(result_queue)
    /\ found_count' = found_count + 1
    /\ file' = FileAfter(file, Head(result_queue), 4)
    /\ cpc' = AfterSave(found_count + 1)
    /\ UNCHANGED <<envvars, stop_flag, key_queue, stats_queue, gvars, wvars,
                   pstatus, joined, cidx, ckeys, total_count, last_count,
                   reports, derived>>

\* the same lines when open() or a write raises OSError, or the operator's
\* interrupt arrives, after n lines of the record: the with block closes the
\* file with what was written. The hybrid's bare except (lines 245-246)
\* swallows either and breaks out of the result loop; in mp both leave the
\* main loop for the finally block
CResultFault ==
    /\ variant \in {"hybrid", "mp"} /\ cpc = "results"
    /\ result_queue # <<>>
    /\ \/ /\ interrupts < MaxInterrupts
          /\ interrupts' = interrupts + 1
          /\ UNCHANGED ioerrors
       \/ /\ ioerrors < MaxIOErrors
          /\ ioerrors' = ioerrors + 1
          /\ UNCHANGED interrupts
    /\ result_queue' = Tail(result_queue)
    /\ found_count' = found_count + 1
    /\ \E n \in 0..3 : file' = FileAfter(file, Head(result_queue), n)
    /\ IF variant = "hybrid"
       THEN cpc' = "report" /\ UNCHANGED cidx
       ELSE cpc' = ShutdownPc /\ cidx' = ShutdownIdx
    /\ UNCHANGED <<variant, cuda_ok, matched, stop_flag, key_queue, stats_queue, gvars,
                   wvars, pstatus, joined, ckeys, total_count, last_count,
                   reports, derived>>

\* hybrid lines 248-268, mp lines 173-193, cuda lines 165-183: the progress
\* line when five seconds have passed, then (hybrid, mp) the sleep
CReport ==
    /\ cpc = "report"
    /\ last_count' \in {last_count, total_count}
    /\ cpc' = "loop"
    /\ UNCHANGED <<envvars, stop_flag, key_queue, result_queue, stats_queue,
                   gvars, wvars, pstatus, joined, cidx, ckeys, total_count,
                   found_count, file, reports, derived>>

\* hybrid line 275
CStop ==
    /\ variant = "hybrid" /\ cpc = "stop"
    /\ stop_flag' = TRUE
    /\ cpc' = "term"
    /\ UNCHANGED <<envvars, key_queue, result_queue, stats_queue, gvars,
                   wvars, pstatus, joined, cidx, ckeys, total_count,
                   found_count, last_count, file, reports, derived>>

\* Process.terminate(): SIGTERM ends a process that is still running
Terminated(st) == IF st = "running" THEN "killed" ELSE st

\* hybrid lines 277 and 281, mp line 200
CTerminate ==
    /\ variant \in {"hybrid", "mp"} /\ cpc = "term"
    /\ pstatus' = [pstatus EXCEPT ![cidx] = Terminated(@)]
    /\ IF variant = "hybrid"
       THEN cpc' = "join" /\ UNCHANGED cidx
       ELSE IF cidx < NumWorkers
            THEN cidx' = cidx + 1 /\ UNCHANGED cpc
            ELSE cpc' = "final" /\ UNCHANGED cidx
    /\ UNCHANGED <<envvars, stop_flag, key_queue, result_queue, stats_queue,
                   gvars, wvars, joined, ckeys, total_count, found_count,
                   last_count, file, reports, derived>>

\* hybrid lines 278 and 282: join(timeout=2)
CJoin ==
    /\ variant = "hybrid" /\ cpc = "join"
    /\ joined' = joined \cup {cidx}
    /\ IF cidx < NumWorkers
       THEN cidx' = cidx + 1 /\ cpc' = "term"
       ELSE cpc' = "final" /\ UNCHANGED cidx
    /\ UNCHANGED <<envvars, stop_flag, key_queue, result_queue, stats_queue,
                   gvars, wvars, pstatus, ckeys, total_count, found_count,
                   last_count, file, reports, derived>>

\* hybrid lines 284-292, mp lines 202-205, cuda lines 188-193: the summary
CFinal ==
    /\ cpc = "final"
    /\ reports' = reports + 1
    /\ cpc' = "stopped"
    /\ UNCHANGED <<envvars, stop_flag, key_queue, result_queue, stats_queue,
                   gvars, wvars, pstatus, joined, cidx, ckeys, total_count,
                   found_count, last_count, file, derived>>

(***************************************************************************)
(* The operator's interrupt: KeyboardInterrupt raised in the main thread.  *)
(***************************************************************************)
\* where KeyboardInterrupt takes the Controller from position pc. swallowed
\* says that it was raised inside one of the hybrid's inner try blocks, whose
\* bare except breaks out of the inner loop (lines 221-222 and 245-246).
AfterInterrupt(pc, swallowed) ==
    CASE pc \in {"stop", "term", "join", "final"} -> "aborted"
      [] variant = "cuda" -> "final"
      [] swallowed /\ pc = "stats" -> "results"
      [] swallowed /\ pc = "results" -> "report"
      [] OTHER -> ShutdownPc

\* raised in the main loop outside the inner try blocks: hybrid lines 270-271,
\* mp lines 195-196, cuda lines 185-186
CInterrupt ==
    /\ cpc \in {"loop", "stats", "results", "report", "batch"}
    /\ interrupts < MaxInterrupts
    /\ interrupts' = interrupts + 1
    /\ cpc' = AfterInterrupt(cpc, FALSE)
    /\ cidx' = ShutdownIdx
    /\ UNCHANGED <<variant, cuda_ok, matched, ioerrors, stop_flag, key_queue,
                   result_queue, stats_queue, gvars, wvars, pstatus, joined,
                   ckeys, total_count, found_count, last_count, file, reports,
                   derived>>

\* raised inside get_nowait of the hybrid's stats or result loop
CInterruptSwallowed ==
    /\ variant = "hybrid"
    /\ cpc \in {"stats", "results"}
    /\ interrupts < MaxInterrupts
    /\ interrupts' = interrupts + 1
    /\ cpc' = AfterInterrupt(cpc, TRUE)
    /\ UNCHANGED <<variant, cuda_ok, matched, ioerrors, stop_flag, key_queue,
                   result_queue, stats_queue, gvars, wvars, pstatus, joined,
                   cidx, ckeys, total_count, found_count, last_count, file,
                   reports, derived>>

\* raised inside the finally block (hybrid, mp) or after the except clause
\* (cuda): nothing catches it and the rest of the shutdown is skipped
CInterruptShutdown ==
    /\ cpc \in {"stop", "term", "join", "final"}
    /\ interrupts < MaxInterrupts
    /\ interrupts' = interrupts + 1
    /\ cpc' = AfterInterrupt(cpc, FALSE)
    /\ UNCHANGED <<variant, cuda_ok, matched, ioerrors, stop_flag, key_queue,
                   result_queue, stats_queue, gvars, wvars, pstatus, joined,
                   cidx, ckeys, total_count, found_count, last_count, file,
                   reports, derived>>

(***************************************************************************)
(* tron_cuda.py: main() and TronGPUGenerator.search, one thread.           *)
(***************************************************************************)
\* lines 217-228 and 90-92: the constructor raises without a device, and
\* main() exits with status 1
CudaStart ==
    /\ variant = "cuda" /\ cpc = "start"
    /\ cpc' = AfterDeviceCheck(cuda_ok)
    /\ UNCHANGED <<envvars, stop_flag, key_queue, result_queue, stats_queue,
                   gvars, wvars, pstatus, joined, cidx, ckeys, total_count,
                   found_count, last_count, file, reports, derived>>

\* lines 133-135: while len(found) < target_count, the next batch
CudaLoop ==
    /\ variant = "cuda" /\ cpc = "loop"
    /\ IF LoopGuard(found_count)
       THEN /\ gen_calls < MaxCalls
            /\ gen_calls' = gen_calls + 1
            /\ ckeys' = generate_batch(rng_states)
            /\ rng_states' = NextState(rng_states)
            /\ cpc' = "batch"
       ELSE /\ cpc' = "final"
            /\ UNCHANGED <<gen_calls, rng_states, ckeys>>
    /\ UNCHANGED <<envvars, stop_flag, key_queue, result_queue, stats_queue,
                   gpc, gkeys, wvars, pstatus, joined, cidx, total_count,
                   found_count, last_count, file, reports, derived>>

\* the candidates left after one that did not end the for loop
RestOf(keys) == Tail(keys)

\* lines 138-163 on a candidate that is invalid or does not match
CudaKey ==
    /\ variant = "cuda" /\ cpc = "batch"
    /\ ~IsMatch(Head(ckeys))
    /\ total_count' = CountAfter(total_count, Head(ckeys))
    /\ derived' = IF ValidKey(Head(ckeys)) THEN derived + 1 ELSE derived
    /\ ckeys' = RestOf(ckeys)
    /\ cpc' = IF RestOf(ckeys) = <<>> THEN "report" ELSE "batch"
    /\ UNCHANGED <<envvars, stop_flag, key_queue, result_queue, stats_queue,
                   gvars, wvars, pstatus, joined, cidx, found_count,
                   last_count, file, reports>>

\* lines 138-161 on a match: found.append, _save_result, and the break on
\* the target
CudaHit ==
    /\ variant = "cuda" /\ cpc = "batch"
    /\ IsMatch(Head(ckeys))
    /\ total_count' = total_count + 1
    /\ derived' = derived + 1
    /\ found_count' = found_count + 1
    /\ file' = FileAfter(file, Hit(Head(ckeys), 0), 4)
    /\ IF found_count + 1 >= TARGET_COUNT \/ RestOf(ckeys) = <<>>
       THEN ckeys' = <<>> /\ cpc' = "report"
       ELSE ckeys' = RestOf(ckeys) /\ cpc' = "batch"
    /\ UNCHANGED <<envvars, stop_flag, key_queue, result_queue, stats_queue,
                   gvars, wvars, pstatus, joined, cidx, last_count, reports>>

\* the same lines when _save_result raises OSError after n lines (line 162
\* catches it and the for loop continues, past the break of line 160) or the
\* operator's interrupt arrives in it (line 185 catches it)
CudaHitFault ==
    /\ variant = "cuda" /\ cpc = "batch"
    /\ IsMatch(Head(ckeys))
    /\ total_count' = total_count + 1
    /\ derived' = derived + 1
    /\ found_count' = found_count + 1
    /\ \E n \in 0..3 : file' = FileAfter(file, Hit(Head(ckeys), 0), n)
    /\ \/ /\ interrupts < MaxInterrupts
          /\ interrupts' = interrupts + 1
          /\ UNCHANGED ioerrors
          /\ ckeys' = <<>>
          /\ cpc' = "final"
       \/ /\ ioerrors < MaxIOErrors
          /\ ioerrors' = ioerrors + 1
          /\ UNCHANGED interrupts
          /\ ckeys' = RestOf(ckeys)
          /\ cpc' = IF RestOf(ckeys) = <<>> THEN "report" ELSE "batch"
    /\ UNCHANGED <<variant, cuda_ok, matched, stop_flag, key_queue, result_queue,
                   stats_queue, gvars, wvars, pstatus, joined, cidx,
                   last_count, reports>>

(***************************************************************************)
(* The three programs.                                                     *)
(***************************************************************************)
Producer == GpuInit \/ GpuFail \/ GpuGenerate \/ GpuExit \/ GpuPut
                \/ GpuPutTimeout

Worker(w) == WLoop(w) \/ WExit(w) \/ WGet(w) \/ WGetTimeout(w) \/ WKey(w)
                \/ MPGen(w)

Controller == CStart \/ CLoop \/ CStats \/ CResultEmpty \/ CResultSaved
                \/ CReport \/ CStop \/ CTerminate \/ CJoin \/ CFinal
                \/ CudaStart \/ CudaLoop \/ CudaKey \/ CudaHit

Faults == CResultFault \/ CudaHitFault \/ CInterrupt \/ CInterruptSwallowed
                \/ CInterruptShutdown

Next == Producer \/ (\E w \in Workers : Worker(w)) \/ Controller \/ Faults

Spec == Init /\ [][Next]_vars

\* the run without operator interrupts and I/O errors
QuietNext == Producer \/ (\E w \in Workers : Worker(w)) \/ Controller

\* every process that can take a step eventually takes one: the processes
\* are operating-system processes on their own cores, and the main loop's
\* sleep of 0.1 s always returns
FairSpec ==
    /\ Init
    /\ [][QuietNext]_vars
    /\ WF_vars(Producer)
    /\ \A w \in Workers : WF_vars(Worker(w))
    /\ WF_vars(Controller)

(***************************************************************************)
(* The Matcher on its own: check_address and the two inlined tests, called *)
(* on every address and pattern over a small alphabet.                     *)
(***************************************************************************)
\* the characters of the addresses and patterns: two that differ in case only
Chars == {"M", "m", "f"}

\* the texts of at most n characters
Texts(n) == UNION {[1..k -> Chars] : k \in 0..n}

MatchInit ==
    /\ variant = "cuda"
    /\ cuda_ok = TRUE
    /\ stop_flag = FALSE
    /\ key_queue = <<>>
    /\ result_queue = <<>>
    /\ stats_queue = <<>>
    /\ gpc = "init"
    /\ gkeys = <<>>
    /\ gen_calls = 0
    /\ rng_states = 0
    /\ wpc = [w \in Workers |-> "loop"]
    /\ wkeys = [w \in Workers |-> <<>>]
    /\ count = [w \in Workers |-> 0]
    /\ pstatus = [p \in Procs |-> "unstarted"]
    /\ joined = {}
    /\ cpc = "start"
    /\ cidx = 0
    /\ ckeys = <<>>
    /\ total_count = 0
    /\ found_count = 0
    /\ last_count = 0
    /\ file = <<>>
    /\ interrupts = 0
    /\ ioerrors = 0
    /\ reports = 0
    /\ derived = 0
    /\ \E a \in Texts(MaxAddressLen), p \in Texts(MaxPatternLen),
          s \in Texts(MaxPatternLen) :
            matched = [address |-> a, prefix |-> p, suffix |-> s, out |-> <<>>]

\* the three implementations are called on the same arguments
MatchCall ==
    /\ matched.out = <<>>
    /\ matched' = [matched EXCEPT !.out =
           [check_address |->
                check_address(matched.address, matched.prefix, matched.suffix),
            cpu_worker |->
                cpu_worker_match(matched.address, matched.prefix,
                                 matched.suffix),
            worker |->
                worker_match(matched.address, matched.prefix, matched.suffix)]]
    /\ UNCHANGED <<variant, cuda_ok, interrupts, ioerrors, stop_flag,
                   key_queue, result_queue, stats_queue, gvars, wvars, pstatus,
                   joined, cvars, derived>>

MatchSpec == MatchInit /\ [][MatchCall]_vars

(***************************************************************************)
(* Properties.                                                             *)
(***************************************************************************)

\* C1: the Controller leaves Running only when hits_found has reached
\* target_count or with an operator interrupt, and at the top of the main
\* loop with hits_found >= target_count its next step leaves Running.
C1_LeavesRunningOnTargetOrInterrupt ==
    [][/\ (Phase = "Running" /\ Phase' # "Running")
            => (found_count >= TARGET_COUNT \/ interrupts' > interrupts)
       /\ (cpc = "loop" /\ found_count >= TARGET_COUNT /\ cpc' # cpc)
            => Phase' = "Draining"]_vars

\* C2: once the stop flag is set, every process of the hybrid that has left
\* its loop left it by observing the flag (or had failed before), never by
\* forced termination.
C2_LoopsExitByThemselves ==
    \A p \in Procs :
        (stop_flag /\ pstatus[p] # "running")
            => pstatus[p] \in {"exited", "failed"}

\* C3: the key queue never holds more than QueueDepth batches, and every
\* change of it is one enqueue of the producer's batch or one dequeue that
\* hands its head to exactly one worker.
C3_QueueBounded ==
    /\ [](Len(key_queue) <= QueueDepth)
    /\ [][\/ key_queue' = key_queue
          \/ /\ key_queue' = Append(key_queue, gkeys)
             /\ wkeys' = wkeys
          \/ /\ key_queue # <<>>
             /\ key_queue' = Tail(key_queue)
             /\ \E w \in Workers :
                    /\ wpc[w] = "get"
                    /\ wkeys' = [wkeys EXCEPT ![w] = Head(key_queue)]]_vars

\* C3 witness: the queue is full and the producer is at its put with one
\* more batch
C3_Witness ==
    /\ Len(key_queue) = QueueDepth
    /\ gpc = "put"
    /\ pstatus[GPU] = "running"

\* C4: while QueueDepth batches are in the queue and the producer holds a
\* batch it could not push, no further batch is generated.
C4_ProducerStalls ==
    [][(variant = "hybrid" /\ Len(key_queue) = QueueDepth /\ gkeys # <<>>)
            => gen_calls' = gen_calls]_vars

\* C5: no worker is ended with a non-zero local counter that was never
\* emitted as a delta.
C5_NoCounterLost ==
    \A w \in Workers : pstatus[w] = "killed" => count[w] = 0

\* C6: an operator interrupt delivered after an earlier one, while the
\* Controller is in its shutdown path, changes nothing: the Controller stays
\* where it is in the shutdown.
C6_SecondInterruptNoOp ==
    [][(Phase = "Draining" /\ interrupts >= 1 /\ interrupts' > interrupts)
            => (cpc' = cpc /\ cidx' = cidx)]_vars

\* C7: in the hybrid's shutdown a process is forcibly terminated only after
\* join(timeout) was called on it.
C7_KillOnlyAfterJoin ==
    \A p \in Procs :
        (variant = "hybrid" /\ pstatus[p] = "killed") => p \in joined

\* whether a file is a sequence of whole records
WholeRecords(f) ==
    /\ Len(f) % 4 = 0
    /\ \A j \in 0..((Len(f) \div 4) - 1) :
        /\ f[4 * j + 1][1] = "Address"
        /\ f[4 * j + 2][1] = "Private Key"
        /\ f[4 * j + 3][1] = "Time"
        /\ f[4 * j + 4][1] = "Separator"

\* C8: every record of the result file has all four of its lines.
C8_NoPartialRecord == WholeRecords(file)

\* C9: if the producer process fails while the Controller is Running, the
\* run reaches Stopped.
C9_ProducerFailureStopsRun ==
    (variant = "hybrid" /\ pstatus[GPU] = "failed" /\ Phase = "Running")
        ~> (Phase = "Stopped")

\* C10: a worker's step on a candidate whose derivation fails changes no
\* counter and no queue; the worker stays alive and goes on with the rest of
\* its batch.
C10_InvalidCandidateSkipped ==
    [][\A w \in Workers :
        (/\ pstatus[w] = "running" /\ wpc[w] = "batch" /\ ~stop_flag
         /\ wkeys'[w] # wkeys[w]
         /\ ~ValidKey(Head(wkeys[w])))
        => /\ count'[w] = count[w]
           /\ result_queue' = result_queue
           /\ stats_queue' = stats_queue
           /\ derived' = derived
           /\ pstatus'[w] = "running"
           /\ wkeys'[w] = Tail(wkeys[w])
           /\ wpc'[w] = (IF Tail(wkeys[w]) = <<>> THEN "loop" ELSE "batch")
      ]_vars

\* C10 witness: a hybrid worker has done the first candidate of the first
\* batch without a derivation being counted, and is on the rest of the batch
C10_Witness ==
    \E w \in Workers :
        /\ variant = "hybrid"
        /\ pstatus[w] = "running" /\ wpc[w] = "batch"
        /\ Len(wkeys[w]) = BatchSize - 1
        /\ gen_calls = 1 /\ derived = 0 /\ count[w] = 0

\* whether the text p stands in a from its second character on
StartsAfterVersion(a, p) ==
    /\ Len(a) >= 1 + Len(p)
    /\ \A i \in 1..Len(p) : a[1 + i] = p[i]

\* whether the text s is the end of a
EndsWith(a, s) ==
    /\ Len(a) >= Len(s)
    /\ \A i \in 1..Len(s) : a[Len(a) - Len(s) + i] = s[i]

\* C11: for every address and pattern the match decision is true iff (the
\* prefix is empty or stands in the address from offset 1) and (the suffix is
\* empty or is the end of the address), and check_address, cpu_worker's test
\* and worker's test all give that decision.
C11_MatchDecision ==
    matched.out # <<>> =>
        LET decision ==
                /\ (matched.prefix = <<>>
                        \/ StartsAfterVersion(matched.address, matched.prefix))
                /\ (matched.suffix = <<>>
                        \/ EndsWith(matched.address, matched.suffix))
        IN  /\ matched.out.check_address = decision
            /\ matched.out.cpu_worker = decision
            /\ matched.out.worker = decision

\* C11 witness: the three tests were called with a non-empty prefix and an
\* empty suffix on an address that carries the prefix, and said yes
C11_Witness ==
    /\ matched.out # <<>>
    /\ matched.prefix # <<>> /\ matched.suffix = <<>>
    /\ Len(matched.address) = MaxAddressLen
    /\ matched.out.check_address /\ matched.out.cpu_worker
    /\ matched.out.worker

\* C12: without an accelerator at startup the run ends with exit status 1
\* before any process is started, any key generated or any record written,
\* and the Controller is never Running (nor Draining, nor Stopped).
C12_AbortsBeforeStart ==
    ~cuda_ok =>
        /\ cpc \in {"start", "exit1"}
        /\ \A p \in Procs : pstatus[p] = "unstarted"
        /\ file = <<>>
        /\ gen_calls = 0
        /\ Phase \notin {"Running", "Draining", "Stopped"}

\* C12 witness: the hybrid found no device and has left main() with status 1
C12_Witness ==
    /\ variant = "hybrid"
    /\ ~cuda_ok
    /\ cpc = "exit1"

\* the line that comes before a line of a record, by its label
LineBefore(label) ==
    CASE label = "Private Key" -> "Address"
      [] label = "Time" -> "Private Key"
      [] OTHER -> "Time"

\* whether every line of f that does not open a record directly follows the
\* line before it of the same record
Contiguous(f) ==
    \A i \in 1..Len(f) :
        \/ f[i][1] = "Address"
        \/ /\ i > 1
           /\ f[i - 1][1] = LineBefore(f[i][1])
           /\ f[i][1] = "Private Key" =>
                \E k \in Candidates :
                    /\ f[i][2] = Hex(k)
                    /\ f[i - 1][2] = private_key_to_address(k)

\* the Hit whose record the Controller's next append writes
HitToAppend ==
    IF variant = "cuda" THEN Hit(Head(ckeys), 0) ELSE Head(result_queue)

\* C13: the file changes only in a step of the Controller/Aggregator that
\* takes one Hit and appends lines of that Hit's record at the end; no step
\* of a worker or of the producer changes it; and the lines of two records
\* are never interleaved in the file.
C13_SingleWriter ==
    /\ [](Contiguous(file))
    /\ [][file' # file =>
            /\ wvars' = wvars /\ gvars' = gvars
            /\ cpc \in {"results", "batch"}
            /\ variant # "cuda" =>
                    (result_queue # <<>> /\ result_queue' = Tail(result_queue))
            /\ \E n \in 1..4 :
                    file' = file \o SubSeq(RecordLines(HitToAppend), 1, n)
         ]_vars

\* C13 witness: the file holds two whole records while every worker of the
\* hybrid is in the middle of a batch
C13_Witness ==
    /\ variant = "hybrid"
    /\ Len(file) = 8
    /\ \A w \in Workers : pstatus[w] # "unstarted" /\ wkeys[w] # <<>>

\* the sum of the local counters of the workers of S
RECURSIVE SumCount(_)
SumCount(S) ==
    IF S = {} THEN 0
    ELSE LET w == CHOOSE x \in S : TRUE IN count[w] + SumCount(S \ {w})

C15_NoHitLeftInChannel ==
    [][(Phase = "Running" /\ Phase' # "Running") => result_queue = <<>>]_vars

\* C16: a worker's derivation that brings its local counter to the
\* granularity puts a delta equal to the granularity and resets the counter
\* in the same step, and any other derivation puts nothing; so the counter
\* is always in [0, granularity), and the only other delta is the final
\* flush of a worker that leaves its loop, which is smaller.
C16_DeltaAtGranularity ==
    /\ [](\A w \in Workers : count[w] \in 0..(Granularity - 1))
    /\ [][\A w \in Workers :
            LET derives == wkeys'[w] # wkeys[w] /\ derived' = derived + 1
            IN  /\ (derives /\ count[w] + 1 = Granularity) =>
                    /\ stats_queue' = Append(stats_queue, Granularity)
                    /\ count'[w] = 0
                /\ (derives /\ count[w] + 1 < Granularity) =>
                    /\ stats_queue' = stats_queue
                    /\ count'[w] = count[w] + 1
         ]_vars
    /\ [][Len(stats_queue') > Len(stats_queue) =>
            \/ /\ stats_queue' = Append(stats_queue, Granularity)
               /\ \E w \in Workers :
                    /\ count[w] = Granularity - 1 /\ count'[w] = 0
                    /\ wkeys'[w] # wkeys[w]
            \/ \E w \in Workers :
                    /\ stop_flag
                    /\ pstatus[w] = "running" /\ pstatus'[w] = "exited"
                    /\ count[w] \in 1..(Granularity - 1)
                    /\ stats_queue' = Append(stats_queue, count[w])
         ]_vars

\* C16 witness: the stats channel of the hybrid holds a delta of one whole
\* granularity and the smaller final flush of a worker that has exited
C16_Witness ==
    /\ variant = "hybrid"
    /\ \E i \in 1..Len(stats_queue) : stats_queue[i] = Granularity
    /\ \E i \in 1..Len(stats_queue) : stats_queue[i] < Granularity
    /\ \E w \in Workers : pstatus[w] = "exited"

\* C17: with the stop flag unset, a worker whose dequeue finds the key queue
\* empty stays alive, keeps its local counter and is back at the top of its
\* loop, from where its next step is the dequeue again; and as long as the
\* flag is never set it is at its dequeue on an empty queue again and again,
\* without end.
C17_TimeoutRetries ==
    /\ [][\A w \in Workers :
            /\ (/\ variant = "hybrid" /\ ~stop_flag
                /\ pstatus[w] = "running" /\ wpc[w] = "get"
                /\ key_queue = <<>> /\ wpc'[w] # wpc[w])
               => /\ wpc'[w] = "loop"
                  /\ pstatus'[w] = "running"
                  /\ count'[w] = count[w]
                  /\ stats_queue' = stats_queue
            /\ (/\ variant = "hybrid" /\ ~stop_flag
                /\ pstatus[w] = "running" /\ wpc[w] = "loop"
                /\ wpc'[w] # wpc[w])
               => /\ wpc'[w] = "get"
                  /\ pstatus'[w] = "running"
                  /\ count'[w] = count[w]
         ]_vars
    /\ \A w \in Workers :
          (variant = "hybrid" /\ <>(pstatus[w] = "running") /\ [](~stop_flag))
              => []<>(wpc[w] = "get" /\ key_queue = <<>>)

\* C17 witness: the producer has failed before its first batch, the flag is
\* unset, and a worker that has been at its dequeue is back at the top of
\* its loop while the other one waits on the empty queue
C17_Witness ==
    /\ variant = "hybrid" /\ ~stop_flag
    /\ pstatus[GPU] = "failed" /\ gen_calls = 0
    /\ key_queue = <<>>
    /\ Phase = "Running" /\ cpc = "report"
    /\ \E w \in Workers : pstatus[w] = "running" /\ wpc[w] = "loop"
    /\ \E w \in Workers : pstatus[w] = "running" /\ wpc[w] = "get"

\* C18: at Stopped the final statistics were reported exactly once, and the
\* total_attempts reported there includes every delta a worker emitted: none
\* is still in the stats channel.
C18_FinalTotalIncludesEveryDelta ==
    Phase = "Stopped" => (reports = 1 /\ stats_queue = <<>>)

\* whether q2 is q1, or q1 with one more element at its end
SameOrAppended(q1, q2) ==
    \/ q2 = q1
    \/ Len(q2) = Len(q1) + 1 /\ SubSeq(q2, 1, Len(q1)) = q1

\* C19: a step of a worker or of the producer leaves total_attempts,
\* hits_found and last_report_count (and the file) unchanged and at most
\* appends one delta and one Hit to the stats and result channels; the Stats
\* change only in steps of the Controller's main loop.
C19_StatsOwnedByAggregator ==
    /\ [][(wvars' # wvars \/ gpc' # gpc) =>
            /\ total_count' = total_count
            /\ found_count' = found_count
            /\ last_count' = last_count
            /\ file' = file
            /\ SameOrAppended(stats_queue, stats_queue')
            /\ SameOrAppended(result_queue, result_queue')
         ]_vars
    /\ [][(\/ total_count' # total_count
           \/ found_count' # found_count
           \/ last_count' # last_count) =>
            /\ Phase = "Running"
            /\ wvars' = wvars /\ gpc' = gpc
         ]_vars

\* C19 witness: in the hybrid both a delta and a Hit have made their way
\* from a worker into the Stats, and a worker has put another delta since
C19_Witness ==
    /\ variant = "hybrid"
    /\ total_count > 0 /\ found_count > 0
    /\ stats_queue # <<>>

\* the records begun in the file f
Records(f) == {i \in 1..Len(f) : f[i][1] = "Address"}

\* C20: in every variant hits_found and the number of records in the result
\* file never exceed target_count.
C20_NeverMoreThanTarget ==
    /\ found_count <= TARGET_COUNT
    /\ Cardinality(Records(file)) <= TARGET_COUNT

\* the sum of the deltas of q
RECURSIVE SumDeltas(_)
SumDeltas(q) == IF q = <<>> THEN 0 ELSE Head(q) + SumDeltas(Tail(q))

RecordOfOneHit(f, i) ==
    /\ i + 1 <= Len(f)
    /\ f[i + 1][1] = "Private Key"
    /\ \E k \in Candidates :
        /\ ValidKey(k)
        /\ f[i + 1][2] = Hex(k)
        /\ f[i][2] = private_key_to_address(k)
    /\ StartsAfterVersion(f[i][2], PREFIX)
    /\ EndsWith(f[i][2], SUFFIX)

\* C22: every record of the result file holds an address and the private
\* key it is derived from, and the address carries the configured pattern;
\* and every step that begins a record begins one record only, for the Hit
\* that the same step takes out of the result channel, so that no emitted
\* Hit is persisted twice.
C22_RecordsAreHits ==
    /\ [](\A i \in Records(file) : RecordOfOneHit(file, i))
    /\ [][Records(file') # Records(file) =>
            /\ Records(file') = Records(file) \cup {Len(file) + 1}
            /\ file'[Len(file) + 1][2] = HitToAppend.address
            /\ variant # "cuda" =>
                    (result_queue # <<>> /\ result_queue' = Tail(result_queue))
         ]_vars

====
